---- MODULE Spec2Model ----
(***************************************************************************)
(* Model of Deployments/go/main.go: the transaction-ledger HTTP service,   *)
(* its metrics registry, the request-instrumentation middleware, the       *)
(* decorating response writer, the handlers and the pool sampler.          *)
(*                                                                         *)
(* Units: a request value (float64 in the code) is an integer number of    *)
(* thousandths; a stored value (DECIMAL(15,2)) is an integer number of     *)
(* hundredths.  A URL path is the sequence of its segments.                *)
(***************************************************************************)
EXTENDS Integers, Sequences, FiniteSets, Bags, TLC

\* ------------------------------------------------------------------ bounds
MaxRequests == 2
MaxLen == 3
MaxCalls == 3
MaxRows == 52

\* ------------------------------------------------------- program constants
StatusOK == 200
StatusCreated == 201
StatusBadRequest == 400
StatusNotFound == 404
StatusInternalServerError == 500
StatusServiceUnavailable == 503
DefaultLimit == 50
DefaultOffset == 0
MaxLimit == 100

ReqIds == 1..MaxRequests

VARIABLES
    req,              \* per request: position, inputs, writers, locals
    db,               \* rows of table transactions, in insertion order
    httpDuration,     \* bag of <<path, method, status_code>> observations
    httpRequests,     \* bag of <<path, method, status_code>> increments
    httpRequestSize,  \* bag of <<<<path, method>>, bytes>> observations
    httpResponseSize, \* bag of <<<<path, method, status_code>>, bytes>>
    txnCounter,       \* bag of status label values
    txnValueSum,      \* gauge, thousandths
    txnErrorCounter,  \* counter
    gauges,           \* the four db_* gauges
    pool,             \* sql.DB pool statistics
    hw,               \* one handler run against the decorating writer
    proc              \* the process: main's position, registry, sampler

vars == <<req, db, httpDuration, httpRequests, httpRequestSize,
          httpResponseSize, txnCounter, txnValueSum, txnErrorCounter,
          gauges, pool, hw, proc>>

registry == <<httpDuration, httpRequests, httpRequestSize, httpResponseSize,
              txnCounter, txnValueSum, txnErrorCounter, gauges>>

\* ------------------------------------------------------------ conversions
Digits == {"0", "1", "2", "3", "4", "5", "6", "7", "8", "9"}

DigitVal(c) ==
    CASE c = "0" -> 0 [] c = "1" -> 1 [] c = "2" -> 2 [] c = "3" -> 3
      [] c = "4" -> 4 [] c = "5" -> 5 [] c = "6" -> 6 [] c = "7" -> 7
      [] c = "8" -> 8 [] c = "9" -> 9

RECURSIVE DigitsValue(_)
DigitsValue(s) ==
    IF s = <<>> THEN 0
    ELSE 10 * DigitsValue(SubSeq(s, 1, Len(s) - 1)) + DigitVal(s[Len(s)])

\* strconv.Atoi on a string given as its characters: an optional sign, then
\* one or more decimal digits; anything else is an error.
Atoi(s) ==
    LET signed == s # <<>> /\ s[1] \in {"+", "-"}
        body   == IF signed THEN Tail(s) ELSE s
    IN  IF body = <<>> \/ \E i \in 1..Len(body) : body[i] \notin Digits
        THEN [err |-> TRUE, val |-> 0]
        ELSE [err |-> FALSE,
              val |-> IF signed /\ s[1] = "-" THEN 0 - DigitsValue(body)
                      ELSE DigitsValue(body)]

\* The value as column value DECIMAL(15,2) holds it: rounded to two places,
\* half away from zero (thousandths in, hundredths out).
ToDecimal2(v) ==
    IF v >= 0 THEN (v + 5) \div 10 ELSE 0 - ((5 - v) \div 10)

\* ---------------------------------------------------------------- payloads
Text(msg) == [kind |-> "text", text |-> msg, rows |-> <<>>]
Json(kind, rows) == [kind |-> kind, text |-> "", rows |-> rows]

\* len(msg) + 1: http.Error writes the message with fmt.Fprintln.
TextBytes(msg) ==
    CASE msg = "Invalid request body" -> 21
      [] msg = "Transaction value must be positive" -> 35
      [] msg = "Internal server error" -> 22
      [] msg = "Transaction not found" -> 22
      [] msg = "404 page not found" -> 19
      [] OTHER -> 1

\* The length of a JSON encoding, by a nominal size per encoded object.
JsonBytes(data) ==
    CASE data.kind = "null" -> 5
      [] data.kind = "list" -> 3 + 120 * Len(data.rows)
      [] data.kind = "txn" -> 120
      [] data.kind = "healthy" -> 52
      [] data.kind = "unhealthy" -> 59
      [] OTHER -> 300

Bytes(data) ==
    IF data.kind = "text" THEN TextBytes(data.text) ELSE JsonBytes(data)

\* ------------------------------------------------- the response writers
HeaderNames == {"Content-Type", "X-Content-Type-Options"}
NoHeaders == [k \in HeaderNames |-> ""]

\* The server's own http.ResponseWriter: status 0 until the header is written;
\* sent is the header map as it went out with the status line; headerCalls
\* are the codes of the WriteHeader calls it received.
NewUnderlying == [status |-> 0, pending |-> NoHeaders, sent |-> NoHeaders,
                  body |-> <<>>, headerCalls |-> <<>>]

UnderSetHeader(w, k, v) == [w EXCEPT !.pending[k] = v]

\* Only the first WriteHeader reaches the wire; a later one is superfluous.
UnderWriteHeader(w, code) ==
    IF w.status # 0 THEN [w EXCEPT !.headerCalls = Append(@, code)]
    ELSE [w EXCEPT !.status = code, !.sent = w.pending,
                   !.headerCalls = Append(@, code)]

\* A Write before any WriteHeader sends the header with 200 first; n is the
\* number of bytes the connection took.
UnderWrite(w, data, n) ==
    LET w1 == IF w.status # 0 THEN w
              ELSE [w EXCEPT !.status = StatusOK, !.sent = w.pending]
    IN  [w1 EXCEPT !.body = Append(@, [data |-> data, n |-> n])]

\* The status the caller gets: the server sends 200 when the handler
\* returned without writing anything.
Sent(w) == IF w.status = 0 THEN StatusOK ELSE w.status

NewResponseWriterNoDefault == [statusCode |-> 0, size |-> 0]

\* wrapped := &responseWriter{ResponseWriter: w, statusCode: 200, size: 0}
NewResponseWriter == [statusCode |-> StatusOK, size |-> 0]

\* The methods of responseWriter, on a record r that holds the decorating
\* writer in r.wrapped and the writer it embeds in r.w.
WriteHeaderNoRecord(r, code) == [r EXCEPT !.w = UnderWriteHeader(@, code)]

WriteHeader(r, code) ==
    [r EXCEPT !.wrapped.statusCode = code, !.w = UnderWriteHeader(@, code)]

WriteCountsRequested(r, data, n) ==
    [r EXCEPT !.w = UnderWrite(@, data, n), !.wrapped.size = @ + Bytes(data)]

Write(r, data, n) ==
    [r EXCEPT !.w = UnderWrite(@, data, n), !.wrapped.size = @ + n]

\* Header() is promoted from the embedded ResponseWriter.
SetHeader(r, k, v) == [r EXCEPT !.w = UnderSetHeader(@, k, v)]

\* http.Error(w, msg, code)
HttpError(r, msg, code) ==
    LET r1 == SetHeader(r, "Content-Type", "text/plain; charset=utf-8")
        r2 == SetHeader(r1, "X-Content-Type-Options", "nosniff")
        r3 == WriteHeader(r2, code)
    IN  Write(r3, Text(msg), Bytes(Text(msg)))

\* json.NewEncoder(w).Encode(v)
Encode(r, data) == Write(r, data, Bytes(data))

\* ------------------------------------------------------------------ routing
Routes == <<
    [tpl |-> <<"transactions">>, method |-> "POST", handler |-> "createTransaction"],
    [tpl |-> <<"transactions">>, method |-> "GET", handler |-> "listTransactions"],
    [tpl |-> <<"transactions", "{id}">>, method |-> "GET", handler |-> "getTransaction"],
    [tpl |-> <<"health">>, method |-> "GET", handler |-> "healthCheck"],
    [tpl |-> <<"metrics">>, method |-> "GET", handler |-> "promhttp"] >>

PathMatch(tpl, path) ==
    /\ Len(tpl) = Len(path)
    /\ \A k \in 1..Len(tpl) : tpl[k] = "{id}" \/ tpl[k] = path[k]

\* mux.Router.Match: the first route whose path and method both match gets
\* the handler wrapped in the middlewares of r.Use; a request that matches
\* no route (404) or only the path of one (405) is answered by the router's
\* own handler, and the middlewares are not applied to it.
RouterMatch(method, path) ==
    LET byPath == {k \in 1..Len(Routes) : PathMatch(Routes[k].tpl, path)}
        full   == {k \in byPath : Routes[k].method = method}
    IN  IF full # {}
        THEN [handler |-> Routes[CHOOSE k \in full : \A j \in full : k <= j].handler,
              middleware |-> TRUE]
        ELSE IF byPath # {}
        THEN [handler |-> "methodNotAllowed", middleware |-> FALSE]
        ELSE [handler |-> "notFound", middleware |-> FALSE]

\* ------------------------------------------------------------------- inputs
Values == {-5000, 0, 4, 1500}
NoBody == [valid |-> FALSE, value |-> 0]
Bodies == {NoBody} \cup {[valid |-> TRUE, value |-> v] : v \in Values}
Ids == {"1", "9", "x"}
ListQueries == {<<<<>>, <<>>>>, <<<<"5", "0", "0">>, <<"-", "1">>>>,
                <<<<"1">>, <<"1">>>>}

Request(m, p, c, b, l, o) ==
    [method |-> m, path |-> p, cl |-> c, body |-> b, limit |-> l, offset |-> o]

Inputs ==
    {Request("POST", <<"transactions">>, c, b, <<>>, <<>>) :
        c \in {-1, 56}, b \in Bodies}
    \cup {Request("GET", <<"transactions">>, 0, NoBody, q[1], q[2]) :
        q \in ListQueries}
    \cup {Request("GET", <<"transactions", id>>, 0, NoBody, <<>>, <<>>) :
        id \in Ids}
    \cup {Request(m, p, 0, NoBody, <<>>, <<>>) :
        m \in {"GET"}, p \in {<<"health">>, <<"metrics">>, <<"nope">>}}
    \cup {Request("DELETE", <<"transactions">>, 0, NoBody, <<>>, <<>>)}

NoTxn == [id |-> 0, value |-> 0, timestamp |-> 0, status |-> "", created_at |-> 0]

NewReq ==
    [pc |-> "new", in |-> Request("", <<>>, 0, NoBody, <<>>, <<>>),
     handler |-> "", w |-> NewUnderlying, wrapped |-> [statusCode |-> 0, size |-> 0],
     txn |-> NoTxn, err |-> "nil", page |-> [limit |-> 0, offset |-> 0],
     skipped |-> {}]

\* The driver's pool statistics (sql.DBStats) the sampler reads.
PoolStats == {[max |-> 0, open |-> o, inUse |-> u, idle |-> o - u] :
                 o \in 0..1, u \in 0..1} \ {[max |-> 0, open |-> 0, inUse |-> 1, idle |-> -1]}

\* A handler run against the decorating writer (w, wrapped) and, call for
\* call, against a writer of the server's that is not decorated (direct).
NewHandlerRun ==
    [pc |-> "idle", in |-> Request("GET", <<"any">>, 0, NoBody, <<>>, <<>>),
     w |-> NewUnderlying, wrapped |-> [statusCode |-> 0, size |-> 0],
     direct |-> NewUnderlying, calls |-> 0]

\* ------------------------------------------------------- the process
\* The collectors initMetrics registers, in order, and those of
\* collectDBStats.
AppCollectors ==
    <<"http_request_duration_seconds", "http_requests_total",
      "transactions_total", "transactions_value_sum",
      "transactions_errors_total", "http_request_size_bytes",
      "http_response_size_bytes", "go_collector", "process_collector">>

DBCollectors ==
    <<"db_max_open_connections", "db_open_connections",
      "db_in_use_connections", "db_idle_connections">>

\* prometheus.DefaultRegisterer when main starts: the package has registered
\* its own process collector and Go collector.
DefaultRegistry ==
    <<[name |-> "process_collector", by |-> "prometheus"],
      [name |-> "go_collector", by |-> "prometheus"]>>

\* prometheus.Register: a collector of an identity the registry already
\* holds is refused with an error and the registry is left as it was.
Register(reg, name) ==
    IF \E k \in 1..Len(reg) : reg[k].name = name
    THEN [reg |-> reg, err |-> TRUE]
    ELSE [reg |-> Append(reg, [name |-> name, by |-> "main"]), err |-> FALSE]

RegisterMetricOrExit(p, name) ==
    LET r == Register(p.registered, name)
    IN  IF r.err THEN [p EXCEPT !.pc = "exited"]
        ELSE [p EXCEPT !.registered = r.reg]

\* registerMetric: an error of Register is logged and execution continues.
RegisterMetric(p, name) ==
    LET r == Register(p.registered, name)
    IN  [p EXCEPT !.registered = r.reg,
                  !.log = IF r.err THEN Append(@, name) ELSE @]

NoStats == [max |-> 0, open |-> 0, inUse |-> 0, idle |-> 0]

\* The process when main is entered.
NewProcess ==
    [pc |-> "initMetrics", next |-> 1, registered |-> DefaultRegistry,
     log |-> <<>>, store |-> "up", opened |-> FALSE, schema |-> FALSE,
     tasks |-> 0, sampler |-> [pc |-> "none", stats |-> NoStats],
     listening |-> FALSE]

RECURSIVE RegisterAll(_, _)
RegisterAll(p, names) ==
    IF names = <<>> THEN p
    ELSE RegisterAll(RegisterMetric(p, Head(names)), Tail(names))

\* The process once main has reached http.ListenAndServe.
Serving ==
    [RegisterAll(RegisterAll(NewProcess, AppCollectors), DBCollectors)
       EXCEPT !.pc = "serving", !.opened = TRUE, !.schema = TRUE, !.tasks = 1,
              !.sampler = [pc |-> "stats", stats |-> NoStats],
              !.listening = TRUE]

\* After initMetrics, initDB and collectDBStats: every instrument registered
\* and at its zero value, the table created, no request yet.
InitRegistry ==
    /\ httpDuration = EmptyBag
    /\ httpRequests = EmptyBag
    /\ httpRequestSize = EmptyBag
    /\ httpResponseSize = EmptyBag
    /\ txnCounter = EmptyBag
    /\ txnValueSum = 0
    /\ txnErrorCounter = 0
    /\ gauges = [max |-> 0, open |-> 0, inUse |-> 0, idle |-> 0]
    /\ pool = [max |-> 0, open |-> 0, inUse |-> 0, idle |-> 0]

Init ==
    /\ InitRegistry
    /\ req = [i \in ReqIds |-> NewReq]
    /\ db = <<>>
    /\ hw = NewHandlerRun
    /\ proc = Serving

Inc(bag, labels) == bag (+) SetToBag({labels})
Observe(bag, labels, v) == bag (+) SetToBag({<<labels, v>>})

Labels3(r) == <<r.in.path, r.in.method, r.wrapped.statusCode>>
Labels2(r) == <<r.in.path, r.in.method>>

\* ------------------------------------------------------ request arrival
\* http.ListenAndServe hands each request to the router in a goroutine of
\* its own.  A matched request enters the middleware; an unmatched one is
\* answered at once by the router (http.NotFound, or a bare 405).
ArriveFrom(i, inputs) ==
    /\ proc.listening
    /\ req[i].pc = "new"
    /\ IF i = 1 THEN TRUE ELSE req[i - 1].pc # "new"
    /\ \E in \in inputs :
         LET m  == RouterMatch(in.method, in.path)
             r0 == [req[i] EXCEPT !.in = in, !.handler = m.handler]
         IN  req' = [req EXCEPT ![i] =
                 IF m.middleware THEN [r0 EXCEPT !.pc = "middleware"]
                 ELSE IF m.handler = "notFound"
                 THEN [r0 EXCEPT !.pc = "done",
                          !.w = UnderWrite(
                                  UnderWriteHeader(
                                    UnderSetHeader(
                                      UnderSetHeader(@, "Content-Type",
                                                     "text/plain; charset=utf-8"),
                                      "X-Content-Type-Options", "nosniff"),
                                    StatusNotFound),
                                  Text("404 page not found"),
                                  Bytes(Text("404 page not found")))]
                 ELSE [r0 EXCEPT !.pc = "done",
                          !.w = UnderWriteHeader(@, 405)]]
    /\ UNCHANGED <<db, registry, pool, hw, proc>>

Arrive(i) == ArriveFrom(i, Inputs)

\* ----------------------------------------------------------- middleware
\* Entry: the decorating writer is built and the request size observed.
MwEnter(i) ==
    /\ req[i].pc = "middleware"
    /\ req' = [req EXCEPT ![i].pc = "handler", ![i].wrapped = NewResponseWriter]
    /\ httpRequestSize' =
         IF req[i].in.cl > 0
         THEN Observe(httpRequestSize, Labels2(req[i]), req[i].in.cl)
         ELSE httpRequestSize
    /\ UNCHANGED <<db, httpDuration, httpRequests, httpResponseSize, txnCounter,
                   txnValueSum, txnErrorCounter, gauges, pool, hw, proc>>

MwDurationNotObserved(i) ==
    /\ req[i].pc = "after"
    /\ req' = [req EXCEPT ![i].pc = "count"]
    /\ UNCHANGED <<db, registry, pool, hw, proc>>

\* After next.ServeHTTP returned: the three observations, in program order.
MwDuration(i) ==
    /\ req[i].pc = "after"
    /\ httpDuration' = Inc(httpDuration, Labels3(req[i]))
    /\ req' = [req EXCEPT ![i].pc = "count"]
    /\ UNCHANGED <<db, httpRequests, httpRequestSize, httpResponseSize, txnCounter,
                   txnValueSum, txnErrorCounter, gauges, pool, hw, proc>>

MwCount(i) ==
    /\ req[i].pc = "count"
    /\ httpRequests' = Inc(httpRequests, Labels3(req[i]))
    /\ req' = [req EXCEPT ![i].pc = "size"]
    /\ UNCHANGED <<db, httpDuration, httpRequestSize, httpResponseSize, txnCounter,
                   txnValueSum, txnErrorCounter, gauges, pool, hw, proc>>

MwSize(i) ==
    /\ req[i].pc = "size"
    /\ httpResponseSize' =
         Observe(httpResponseSize, Labels3(req[i]), req[i].wrapped.size)
    /\ req' = [req EXCEPT ![i].pc = "done"]
    /\ UNCHANGED <<db, httpDuration, httpRequests, httpRequestSize, txnCounter,
                   txnValueSum, txnErrorCounter, gauges, pool, hw, proc>>

\* ------------------------------------------------------ createTransaction
\* Decode and the value check; a rejected request is counted and answered.
ValueRejectedNegativeOnly(v) == v < 0

ValueRejected(v) == v <= 0

CreateValidate(i) ==
    /\ req[i].pc = "handler"
    /\ req[i].handler = "createTransaction"
    /\ LET b == req[i].in.body IN
       IF ~b.valid
       THEN /\ txnErrorCounter' = txnErrorCounter + 1
            /\ req' = [req EXCEPT ![i] =
                 [HttpError(@, "Invalid request body", StatusBadRequest)
                    EXCEPT !.pc = "after"]]
       ELSE IF ValueRejected(b.value)
       THEN /\ txnErrorCounter' = txnErrorCounter + 1
            /\ req' = [req EXCEPT ![i] =
                 [HttpError(@, "Transaction value must be positive", StatusBadRequest)
                    EXCEPT !.pc = "after"]]
       ELSE /\ txnErrorCounter' = txnErrorCounter
            /\ req' = [req EXCEPT ![i].pc = "insert"]
    /\ UNCHANGED <<db, httpDuration, httpRequests, httpRequestSize,
                   httpResponseSize, txnCounter, txnValueSum, gauges, pool, hw, proc>>

\* The row INSERT ... RETURNING adds: a serial id, the value as the column
\* holds it, status 'completed', created_at CURRENT_TIMESTAMP (the clock may
\* or may not have advanced by d since the last insert).
NewRowIdReused(v, d) ==
    [id |-> IF db = <<>> THEN 1 ELSE db[Len(db)].id, value |-> ToDecimal2(v),
     timestamp |-> 1, status |-> "completed",
     created_at |-> IF db = <<>> THEN 1 ELSE db[Len(db)].created_at + d]

NewRow(v, d) ==
    [id |-> Len(db) + 1, value |-> ToDecimal2(v), timestamp |-> 1,
     status |-> "completed",
     created_at |-> IF db = <<>> THEN 1 ELSE db[Len(db)].created_at + d]

CreateInsertCountedFirst(i) ==
    /\ req[i].pc = "insert"
    /\ txnCounter' = Inc(txnCounter, "completed")
    /\ \/ \E d \in 0..1 :
            LET row == NewRow(req[i].in.body.value, d) IN
            /\ db' = Append(db, row)
            /\ req' = [req EXCEPT ![i].pc = "summed", ![i].txn = row]
       \/ /\ db' = db
          /\ req' = [req EXCEPT ![i].pc = "failed", ![i].err = "error"]
    /\ UNCHANGED <<httpDuration, httpRequests, httpRequestSize,
                   httpResponseSize, txnValueSum, txnErrorCounter, gauges, pool,
                   hw, proc>>

\* a.db.QueryRow(query, req.Value, req.Timestamp).Scan(...): the store adds
\* the row and returns it, or the call fails.
CreateInsert(i) ==
    /\ req[i].pc = "insert"
    /\ \/ \E d \in 0..1 :
            LET row == NewRow(req[i].in.body.value, d) IN
            /\ db' = Append(db, row)
            /\ req' = [req EXCEPT ![i].pc = "counted", ![i].txn = row]
       \/ /\ db' = db
          /\ req' = [req EXCEPT ![i].pc = "failed", ![i].err = "error"]
    /\ UNCHANGED <<registry, pool, hw, proc>>

CreateFailedNotCounted(i) ==
    /\ req[i].pc = "failed"
    /\ req' = [req EXCEPT ![i] =
         [HttpError(@, "Internal server error", StatusInternalServerError)
            EXCEPT !.pc = "after"]]
    /\ UNCHANGED <<db, registry, pool, hw, proc>>

\* The store call failed: the error is counted and 500 is sent.
CreateFailed(i) ==
    /\ req[i].pc = "failed"
    /\ txnErrorCounter' = txnErrorCounter + 1
    /\ req' = [req EXCEPT ![i] =
         [HttpError(@, "Internal server error", StatusInternalServerError)
            EXCEPT !.pc = "after"]]
    /\ UNCHANGED <<db, httpDuration, httpRequests, httpRequestSize,
                   httpResponseSize, txnCounter, txnValueSum, gauges, pool, hw, proc>>

CreateCount(i) ==
    /\ req[i].pc = "counted"
    /\ txnCounter' = Inc(txnCounter, "completed")
    /\ req' = [req EXCEPT ![i].pc = "summed"]
    /\ UNCHANGED <<db, httpDuration, httpRequests, httpRequestSize,
                   httpResponseSize, txnValueSum, txnErrorCounter, gauges, pool, hw, proc>>

\* What a.txnValueSum.Add is given: the value of the request.
ValueAddedStored(r) == r.txn.value

ValueAdded(r) == r.in.body.value

\* a.txnValueSum.Add(req.Value), then the 201 response with the row.
CreateSum(i) ==
    /\ req[i].pc = "summed"
    /\ txnValueSum' = txnValueSum + ValueAdded(req[i])
    /\ req' = [req EXCEPT ![i] =
         [Encode(WriteHeader(SetHeader(@, "Content-Type", "application/json"),
                             StatusCreated),
                 Json("txn", <<req[i].txn>>))
            EXCEPT !.pc = "after"]]
    /\ UNCHANGED <<db, httpDuration, httpRequests, httpRequestSize,
                   httpResponseSize, txnCounter, txnErrorCounter, gauges, pool, hw, proc>>

\* ------------------------------------------------------- listTransactions
EffectiveLimitNoUpperBound(l) ==
    IF l = <<>> THEN DefaultLimit
    ELSE LET parsed == Atoi(l)
         IN  IF ~parsed.err /\ parsed.val > 0 THEN parsed.val ELSE DefaultLimit

\* limit: the default unless the parameter parses to 1..100.
EffectiveLimit(l) ==
    IF l = <<>> THEN DefaultLimit
    ELSE LET parsed == Atoi(l)
         IN  IF ~parsed.err /\ parsed.val > 0 /\ parsed.val <= MaxLimit
             THEN parsed.val ELSE DefaultLimit

\* offset: the default unless the parameter parses to a number >= 0.
EffectiveOffset(o) ==
    IF o = <<>> THEN DefaultOffset
    ELSE LET parsed == Atoi(o)
         IN  IF ~parsed.err /\ parsed.val >= 0 THEN parsed.val ELSE DefaultOffset

RECURSIVE Descending(_)
\* The orders of the rows S that are descending in created_at: one of the
\* rows of the greatest created_at first, then the others likewise.
Descending(S) ==
    IF S = {} THEN {<<>>}
    ELSE UNION {{<<k>> \o rest : rest \in Descending(S \ {k})} :
                   k \in {a \in S : \A b \in S :
                                       db[a].created_at >= db[b].created_at}}

\* ORDER BY created_at DESC: every order of the rows that is descending in
\* created_at (rows of equal created_at come in either order).
Orderings == Descending(1..Len(db))

PageWithoutLimit(f, limit, offset) ==
    [k \in 1..(IF Len(db) - offset < 0 THEN 0 ELSE Len(db) - offset) |-> f[offset + k]]

\* LIMIT $1 OFFSET $2 of an ordering, as row indexes.
Page(f, limit, offset) ==
    [k \in 1..(IF Len(db) - offset < 0 THEN 0
               ELSE IF Len(db) - offset < limit THEN Len(db) - offset
               ELSE limit) |-> f[offset + k]]

RECURSIVE Scanned(_, _)
\* The rows.Next loop: a row whose Scan fails is skipped.
Scanned(page, bad) ==
    IF page = <<>> THEN <<>>
    ELSE LET rest == Scanned(Tail(page), bad)
         IN  IF Head(page) \in bad THEN rest ELSE <<db[Head(page)]>> \o rest

\* bads: the sets of rows whose Scan may fail (the log has a line for each
\* row of the page that was skipped).
ListFrom(i, bads) ==
    /\ req[i].pc = "handler"
    /\ req[i].handler = "listTransactions"
    /\ LET limit  == EffectiveLimit(req[i].in.limit)
           offset == EffectiveOffset(req[i].in.offset)
           page   == [limit |-> limit, offset |-> offset]
       IN  \/ req' = [req EXCEPT ![i] =
                 [HttpError(@, "Internal server error", StatusInternalServerError)
                    EXCEPT !.pc = "after", !.err = "error", !.page = page]]
           \/ \E f \in Orderings, bad \in bads :
                LET rows == Page(f, limit, offset)
                    transactions == Scanned(rows, bad)
                    data == IF transactions = <<>> THEN Json("null", <<>>)
                            ELSE Json("list", transactions)
                IN  req' = [req EXCEPT ![i] =
                        [Encode(SetHeader(@, "Content-Type", "application/json"), data)
                           EXCEPT !.pc = "after", !.page = page,
                                  !.skipped = {rows[k] : k \in 1..Len(rows)} \cap bad]]
    /\ UNCHANGED <<db, registry, pool, hw, proc>>

ListTransactions(i) == ListFrom(i, SUBSET (1..Len(db)))

\* --------------------------------------------------------- getTransaction
\* WHERE id = $1 on the SERIAL column: the parameter must read as an integer,
\* or the store rejects the query.
GetTransactionCountsError(i) ==
    /\ req[i].pc = "handler"
    /\ req[i].handler = "getTransaction"
    /\ txnErrorCounter' = txnErrorCounter + 1
    /\ req' = [req EXCEPT ![i] =
         [HttpError(@, "Internal server error", StatusInternalServerError)
            EXCEPT !.pc = "after", !.err = "error"]]
    /\ UNCHANGED <<db, httpDuration, httpRequests, httpRequestSize,
                   httpResponseSize, txnCounter, txnValueSum, gauges, pool, hw, proc>>

GetTransaction(i) ==
    /\ req[i].pc = "handler"
    /\ req[i].handler = "getTransaction"
    /\ LET id    == Atoi(<<req[i].in.path[2]>>)
           found == IF id.err THEN {} ELSE {k \in 1..Len(db) : db[k].id = id.val}
       IN  \/ /\ ~id.err
              /\ found = {}
              /\ req' = [req EXCEPT ![i] =
                   [HttpError(@, "Transaction not found", StatusNotFound)
                      EXCEPT !.pc = "after", !.err = "ErrNoRows"]]
           \/ req' = [req EXCEPT ![i] =
                 [HttpError(@, "Internal server error", StatusInternalServerError)
                    EXCEPT !.pc = "after", !.err = "error"]]
           \/ \E k \in found :
                req' = [req EXCEPT ![i] =
                   [Encode(SetHeader(@, "Content-Type", "application/json"),
                           Json("txn", <<db[k]>>))
                      EXCEPT !.pc = "after"]]
    /\ UNCHANGED <<db, registry, pool, hw, proc>>

\* ------------------------------------------------------------ healthCheck
HealthCheckStatusNotSet(i) ==
    /\ req[i].pc = "handler"
    /\ req[i].handler = "healthCheck"
    /\ \/ req' = [req EXCEPT ![i] =
             [Encode(@, Json("unhealthy", <<>>))
                EXCEPT !.pc = "after", !.err = "error"]]
       \/ req' = [req EXCEPT ![i] =
             [Encode(SetHeader(@, "Content-Type", "application/json"),
                     Json("healthy", <<>>))
                EXCEPT !.pc = "after"]]
    /\ UNCHANGED <<db, registry, pool, hw, proc>>

\* a.db.Ping() fails or succeeds.
HealthCheck(i) ==
    /\ req[i].pc = "handler"
    /\ req[i].handler = "healthCheck"
    /\ \/ req' = [req EXCEPT ![i] =
             [Encode(WriteHeader(@, StatusServiceUnavailable), Json("unhealthy", <<>>))
                EXCEPT !.pc = "after", !.err = "error"]]
       \/ req' = [req EXCEPT ![i] =
             [Encode(SetHeader(@, "Content-Type", "application/json"),
                     Json("healthy", <<>>))
                EXCEPT !.pc = "after"]]
    /\ UNCHANGED <<db, registry, pool, hw, proc>>

\* ------------------------------------------------- promhttp.Handler()
MetricsHandler(i) ==
    /\ req[i].pc = "handler"
    /\ req[i].handler = "promhttp"
    /\ req' = [req EXCEPT ![i] =
         [Encode(SetHeader(@, "Content-Type", "text/plain; version=0.0.4"),
                 Json("exposition", <<>>))
            EXCEPT !.pc = "after"]]
    /\ UNCHANGED <<db, registry, pool, hw, proc>>

\* ---------------------------------------------------------------- sampler
\* One iteration of the goroutine of collectDBStats: one snapshot, four Sets.
SamplerTick ==
    /\ proc.tasks = 1
    /\ gauges' = [max |-> pool.max, open |-> pool.open, inUse |-> pool.inUse,
                  idle |-> pool.idle]
    /\ gauges' # gauges
    /\ UNCHANGED <<req, db, httpDuration, httpRequests, httpRequestSize,
                   httpResponseSize, txnCounter, txnValueSum, txnErrorCounter,
                   pool, hw, proc>>

\* database/sql opens, hands out and takes back connections.
PoolChange ==
    /\ proc.opened /\ proc.pc # "exited"
    /\ pool' \in PoolStats \ {pool}
    /\ UNCHANGED <<req, db, registry, hw, proc>>

Next ==
    \/ \E i \in ReqIds :
         \/ Arrive(i)
         \/ MwEnter(i)
         \/ CreateValidate(i)
         \/ CreateInsert(i)
         \/ CreateFailed(i)
         \/ CreateCount(i)
         \/ CreateSum(i)
         \/ ListTransactions(i)
         \/ GetTransaction(i)
         \/ HealthCheck(i)
         \/ MetricsHandler(i)
         \/ MwDuration(i)
         \/ MwCount(i)
         \/ MwSize(i)
    \/ SamplerTick
    \/ PoolChange

Spec == Init /\ [][Next]_vars

\* ------------------------------------------- the decorating writer alone
\* Any handler behind the middleware: it sets headers, writes headers and
\* writes bodies in any order, at most MaxCalls calls, then returns.  Each
\* call is also made on a writer that is not decorated.
Codes == {StatusOK, StatusNotFound, StatusInternalServerError}
HeaderValues == {"application/json"}
WriterData == {Text("Transaction not found"), Json("healthy", <<>>)}
\* what the connection takes of one Write: nothing, a part, or all of it
Taken(data) == {0, 10, Bytes(data)}

InitWriter ==
    /\ InitRegistry
    /\ req = [i \in ReqIds |-> NewReq]
    /\ db = <<>>
    /\ hw = [NewHandlerRun EXCEPT !.pc = "middleware"]
    /\ proc = Serving

WriterEnter ==
    /\ hw.pc = "middleware"
    /\ hw' = [hw EXCEPT !.pc = "handler", !.wrapped = NewResponseWriter]
    /\ UNCHANGED <<req, db, registry, pool, proc>>

HandlerSetHeader ==
    /\ hw.pc = "handler"
    /\ hw.calls < MaxCalls
    /\ \E k \in HeaderNames, v \in HeaderValues :
         hw' = [SetHeader(hw, k, v) EXCEPT
                  !.direct = UnderSetHeader(@, k, v), !.calls = @ + 1]
    /\ UNCHANGED <<req, db, registry, pool, proc>>

HandlerWriteHeader ==
    /\ hw.pc = "handler"
    /\ hw.calls < MaxCalls
    /\ \E code \in Codes :
         hw' = [WriteHeader(hw, code) EXCEPT
                  !.direct = UnderWriteHeader(@, code), !.calls = @ + 1]
    /\ UNCHANGED <<req, db, registry, pool, proc>>

HandlerWrite ==
    /\ hw.pc = "handler"
    /\ hw.calls < MaxCalls
    /\ \E data \in WriterData :
         \E n \in Taken(data) :
            hw' = [Write(hw, data, n) EXCEPT
                     !.direct = UnderWrite(@, data, n), !.calls = @ + 1]
    /\ UNCHANGED <<req, db, registry, pool, proc>>

HandlerReturn ==
    /\ hw.pc = "handler"
    /\ hw' = [hw EXCEPT !.pc = "after"]
    /\ UNCHANGED <<req, db, registry, pool, proc>>

\* The middleware after next.ServeHTTP: duration, count, response size.
WriterRecord ==
    /\ hw.pc = "after"
    /\ httpDuration' = Inc(httpDuration, Labels3(hw))
    /\ httpRequests' = Inc(httpRequests, Labels3(hw))
    /\ httpResponseSize' = Observe(httpResponseSize, Labels3(hw), hw.wrapped.size)
    /\ hw' = [hw EXCEPT !.pc = "done"]
    /\ UNCHANGED <<req, db, httpRequestSize, txnCounter, txnValueSum,
                   txnErrorCounter, gauges, pool, proc>>

NextWriter ==
    \/ WriterEnter
    \/ HandlerSetHeader
    \/ HandlerWriteHeader
    \/ HandlerWrite
    \/ HandlerReturn
    \/ WriterRecord

SpecWriter == InitWriter /\ [][NextWriter]_vars

\* ------------------------------------------------ list requests alone
\* GET /transactions with any limit and any offset of at most MaxLen
\* characters (one of the two parameters at a time, the other absent).
Chars == {"-", "+", "0", "1", "5", "a"}
Strings == UNION {[1..k -> Chars] : k \in 0..MaxLen}

PageInputs ==
    {Request("GET", <<"transactions">>, 0, NoBody, l, <<>>) : l \in Strings}
    \cup {Request("GET", <<"transactions">>, 0, NoBody, <<>>, o) : o \in Strings}

ArriveList(i) == ArriveFrom(i, PageInputs)

\* one request: the parameters of one request do not reach another
NextPage ==
    \/ ArriveList(1)
    \/ MwEnter(1)
    \/ ListTransactions(1)
    \/ MwDuration(1)
    \/ MwCount(1)
    \/ MwSize(1)

SpecPage == Init /\ [][NextPage]_vars

\* ------------------------------------------- list requests on a full table
\* The table as an earlier run of the service left it (CREATE TABLE IF NOT
\* EXISTS keeps it): n rows in insertion order, created_at rising with the
\* id, or the last two rows inserted within one tick of the clock.
StoredRow(k, n, tie) ==
    [id |-> k, value |-> 150, timestamp |-> 1, status |-> "completed",
     created_at |-> IF tie /\ k = n /\ n > 1 THEN n - 1 ELSE k]

Sizes == {0, 1, 2} \cup ((DefaultLimit - 1)..MaxRows)

Stores == {[k \in 1..n |-> StoredRow(k, n, tie)] : n \in Sizes, tie \in BOOLEAN}

ListInputs ==
    {Request("GET", <<"transactions">>, 0, NoBody, q[1], q[2]) : q \in ListQueries}

\* the rows whose Scan fails: none, any one, or all
ScanFailures == {{}, 1..Len(db)} \cup {{k} : k \in 1..Len(db)}

InitList ==
    /\ InitRegistry
    /\ req = [i \in ReqIds |-> NewReq]
    /\ db \in Stores
    /\ hw = NewHandlerRun
    /\ proc = Serving

ArriveStored(i) == ArriveFrom(i, ListInputs)

ListStored(i) == ListFrom(i, ScanFailures)

NextList ==
    \/ ArriveStored(1)
    \/ MwEnter(1)
    \/ ListStored(1)
    \/ MwDuration(1)
    \/ MwCount(1)
    \/ MwSize(1)

SpecList == InitList /\ [][NextList]_vars

\* ------------------------------------------------------------ the start
\* main: initMetrics, initDB (with collectDBStats), setupRoutes, one step of
\* the main goroutine at a time.  log.Fatal ends the process and every
\* goroutine with it.
Exited(p) ==
    [p EXCEPT !.pc = "exited", !.tasks = 0, !.sampler.pc = "none",
              !.listening = FALSE]

\* initMetrics: the next registerMetric call.
RegisterAppMetric ==
    /\ proc.pc = "initMetrics"
    /\ proc' = [RegisterMetric(proc, AppCollectors[proc.next]) EXCEPT
                  !.next = IF proc.next = Len(AppCollectors) THEN 1 ELSE @ + 1,
                  !.pc = IF proc.next = Len(AppCollectors) THEN "open" ELSE @]
    /\ UNCHANGED <<req, db, registry, pool, hw>>

\* sql.Open: the driver parses the URL (it does not connect yet).
OpenStore ==
    /\ proc.pc = "open"
    /\ \/ proc' = [proc EXCEPT !.pc = "schema", !.opened = TRUE]
       \/ proc' = Exited(proc)
    /\ UNCHANGED <<req, db, registry, pool, hw>>

CreateSchemaErrorIgnored ==
    /\ proc.pc = "schema"
    /\ proc' = [proc EXCEPT !.pc = "collectDBStats", !.schema = proc.store = "up"]
    /\ UNCHANGED <<req, db, registry, pool, hw>>

\* a.db.Exec(createTable): succeeds only on a store that can be reached.
CreateSchema ==
    /\ proc.pc = "schema"
    /\ \/ /\ proc.store = "up"
          /\ proc' = [proc EXCEPT !.pc = "collectDBStats", !.schema = TRUE]
       \/ proc' = Exited(proc)
    /\ UNCHANGED <<req, db, registry, pool, hw>>

\* collectDBStats: the next registerMetric call.
RegisterDBMetric ==
    /\ proc.pc = "collectDBStats"
    /\ proc' = [RegisterMetric(proc, DBCollectors[proc.next]) EXCEPT
                  !.next = IF proc.next = Len(DBCollectors) THEN 1 ELSE @ + 1,
                  !.pc = IF proc.next = Len(DBCollectors) THEN "spawn" ELSE @]
    /\ UNCHANGED <<req, db, registry, pool, hw>>

\* go func() { for { ... } }()
SpawnSampler ==
    /\ proc.pc = "spawn"
    /\ proc' = [proc EXCEPT !.pc = "listen", !.tasks = @ + 1,
                            !.sampler = [pc |-> "stats", stats |-> NoStats]]
    /\ UNCHANGED <<req, db, registry, pool, hw>>

\* setupRoutes: the router is built and http.ListenAndServe binds the port,
\* or fails and log.Fatal ends the process.
Listen ==
    /\ proc.pc = "listen"
    /\ \/ proc' = [proc EXCEPT !.pc = "serving", !.listening = TRUE]
       \/ proc' = Exited(proc)
    /\ UNCHANGED <<req, db, registry, pool, hw>>

\* The store becomes unreachable, or reachable again.
StoreChange ==
    /\ proc.pc # "exited"
    /\ proc' = [proc EXCEPT !.store = IF @ = "up" THEN "down" ELSE "up"]
    /\ UNCHANGED <<req, db, registry, pool, hw>>

\* The sampler's loop, statement by statement.
SamplerStatsAsksStore ==
    /\ proc.tasks = 1
    /\ proc.sampler.pc = "stats"
    /\ proc.store = "up"
    /\ proc' = [proc EXCEPT !.sampler = [pc |-> "max", stats |-> pool]]
    /\ UNCHANGED <<req, db, registry, pool, hw>>

\* stats := a.db.Stats(): a snapshot of the pool's counters, taken under the
\* pool's lock without a round trip to the store.
SamplerStats ==
    /\ proc.tasks = 1
    /\ proc.sampler.pc = "stats"
    /\ proc' = [proc EXCEPT !.sampler = [pc |-> "max", stats |-> pool]]
    /\ UNCHANGED <<req, db, registry, pool, hw>>

GaugeOrder == <<"max", "open", "inUse", "idle", "sleep">>

\* The four Set calls, each from the snapshot.
SamplerSet ==
    /\ proc.tasks = 1
    /\ \E k \in 1..4 :
         /\ proc.sampler.pc = GaugeOrder[k]
         /\ gauges' = [gauges EXCEPT ![GaugeOrder[k]] = proc.sampler.stats[GaugeOrder[k]]]
         /\ proc' = [proc EXCEPT !.sampler.pc = GaugeOrder[k + 1]]
    /\ UNCHANGED <<req, db, httpDuration, httpRequests, httpRequestSize,
                   httpResponseSize, txnCounter, txnValueSum, txnErrorCounter,
                   pool, hw>>

\* time.Sleep(10 * time.Second)
SamplerSleep ==
    /\ proc.tasks = 1
    /\ proc.sampler.pc = "sleep"
    /\ proc' = [proc EXCEPT !.sampler.pc = "stats"]
    /\ UNCHANGED <<req, db, registry, pool, hw>>

InitBoot ==
    /\ InitRegistry
    /\ req = [i \in ReqIds |-> NewReq]
    /\ db = <<>>
    /\ hw = NewHandlerRun
    /\ proc = NewProcess

BootInputs ==
    {Request("GET", p, 0, NoBody, <<>>, <<>>) : p \in {<<"health">>, <<"metrics">>}}

ArriveBoot(i) == ArriveFrom(i, BootInputs)

Sampler == SamplerStats \/ SamplerSet \/ SamplerSleep

NextBoot ==
    \/ RegisterAppMetric
    \/ OpenStore
    \/ CreateSchema
    \/ RegisterDBMetric
    \/ SpawnSampler
    \/ Listen
    \/ StoreChange
    \/ PoolChange
    \/ SamplerStats
    \/ SamplerSet
    \/ SamplerSleep
    \/ ArriveBoot(1)
    \/ MwEnter(1)
    \/ HealthCheck(1)
    \/ MetricsHandler(1)
    \/ MwDuration(1)
    \/ MwCount(1)
    \/ MwSize(1)

SpecBoot == InitBoot /\ [][NextBoot]_vars

\* The sampler is a goroutine of its own that the scheduler keeps running:
\* each of its statements is eventually executed.
FairSampler == SpecBoot /\ WF_vars(Sampler)

\* ==================================================================== claims
MiddlewareHandlers ==
    {"createTransaction", "listTransactions", "getTransaction", "healthCheck",
     "promhttp"}
Recording == {"count", "size", "done"}
Answered == {"after", "count", "size", "done"}

\* the label tuple of the response the caller got
Tuple(r) == <<r.in.path, r.in.method, Sent(r.w)>>

Acts(i) == req'[i] # req[i]

\* C1: every completed request, whatever route it hit and also when it
\* matched no route or no method, is counted exactly once in
\* http_requests_total and observed exactly once in
\* http_request_duration_seconds, under the tuple (path, method, status) of
\* its response.
C1_EveryRequestCountedOnce ==
    \A i \in ReqIds :
        req[i].pc = "done" =>
            LET same == {j \in ReqIds : req[j].pc = "done" /\ Tuple(req[j]) = Tuple(req[i])}
            IN  /\ CopiesIn(Tuple(req[i]), httpRequests) >= Cardinality(same)
                /\ CopiesIn(Tuple(req[i]), httpDuration) >= Cardinality(same)

\* The same for the requests a registered route and method matched: one
\* observation and one increment each, and none from anything else.
MatchedRequestsCountedOnce ==
    \A p \in {req[i].in.path : i \in ReqIds}, m \in {"GET", "POST", "DELETE"},
       c \in {0, StatusOK, StatusCreated, StatusBadRequest, StatusNotFound,
              405, StatusInternalServerError, StatusServiceUnavailable} :
        LET t == <<p, m, c>>
            by(pcs) == Cardinality({i \in ReqIds :
                          /\ req[i].handler \in MiddlewareHandlers
                          /\ req[i].pc \in pcs
                          /\ Tuple(req[i]) = t})
        IN  /\ CopiesIn(t, httpDuration) = by(Recording)
            /\ CopiesIn(t, httpRequests) = by({"size", "done"})

\* r is a Get and no row of the table has the identifier of its path
AbsentId(r) ==
    /\ r.handler = "getTransaction"
    /\ LET id == Atoi(<<r.in.path[2]>>)
       IN  id.err \/ \A k \in 1..Len(db) : db[k].id # id.val

\* C2 as claimed: no step of a Get on an identifier that is not in the store
\* changes a counter of the registry, http_requests_total included, and the
\* request is answered 404 (unless the store failed).
C2_GetMissChangesNoCounter ==
    [][\A i \in ReqIds :
         Acts(i) /\ AbsentId(req[i]) =>
            /\ txnCounter' = txnCounter
            /\ txnErrorCounter' = txnErrorCounter
            /\ httpRequests' = httpRequests
            /\ req'[i].pc \in Answered /\ req'[i].err # "error" =>
                  Sent(req'[i].w) = StatusNotFound]_vars

\* r is a Get whose lookup returned sql.ErrNoRows
GetMiss(r) == r.handler = "getTransaction" /\ r.err = "ErrNoRows"

\* C2 as amended: a Get whose lookup finds no row is answered 404; none of its
\* steps changes transactions_total, transactions_errors_total or
\* transactions_value_sum, and http_requests_total grows by exactly one, at
\* the tuple (path, GET, 404), every other tuple unchanged.
C2_GetMissCountsOnlyTheRequest ==
    [][\A i \in ReqIds :
         Acts(i) /\ GetMiss(req'[i]) =>
            /\ txnCounter' = txnCounter
            /\ txnErrorCounter' = txnErrorCounter
            /\ txnValueSum' = txnValueSum
            /\ db' = db
            /\ Sent(req'[i].w) = StatusNotFound
            /\ httpRequests' =
                 IF req[i].pc = "count"
                 THEN httpRequests (+)
                        SetToBag({<<req[i].in.path, "GET", StatusNotFound>>})
                 ELSE httpRequests]_vars

C2_Witness ==
    \E i \in ReqIds :
        /\ req[i].pc = "done"
        /\ GetMiss(req[i])
        /\ req[i].in.path = <<"transactions", "9">>
        /\ CopiesIn(<<req[i].in.path, "GET", StatusNotFound>>, httpRequests) = 1

\* r is a Create whose body does not decode or whose value is <= 0
RejectedCreate(r) ==
    /\ r.handler = "createTransaction"
    /\ ~r.in.body.valid \/ r.in.body.value <= 0

\* C3: a Create whose body does not decode or whose value is <= 0 is
\* answered 400; it adds exactly 1 to transactions_errors_total (when it is
\* rejected, and at no other step), never reaches the store, and changes
\* neither transactions_total nor transactions_value_sum nor the table.
C3_RejectedCreate ==
    [][\A i \in ReqIds :
         Acts(i) /\ RejectedCreate(req'[i]) =>
            /\ db' = db
            /\ txnCounter' = txnCounter
            /\ txnValueSum' = txnValueSum
            /\ txnErrorCounter' =
                 txnErrorCounter + (IF req[i].pc = "handler" THEN 1 ELSE 0)
            /\ req'[i].pc \in {"middleware", "handler"} \cup Answered
            /\ req'[i].pc \in Answered =>
                 /\ Sent(req'[i].w) = StatusBadRequest
                 /\ req'[i].wrapped.statusCode = StatusBadRequest]_vars

C3_Witness ==
    \E i \in ReqIds :
        /\ req[i].pc = "done"
        /\ RejectedCreate(req[i])
        /\ req[i].in.body.valid
        /\ req[i].in.body.value = 0
        /\ Sent(req[i].w) = StatusBadRequest
        /\ txnErrorCounter = 1
        /\ db = <<>>

Creates == {i \in ReqIds : req[i].handler = "createTransaction"}
Created == {i \in Creates : req[i].w.status = StatusCreated}

RECURSIVE SumOfValues(_)
SumOfValues(S) ==
    IF S = {} THEN 0
    ELSE LET i == CHOOSE j \in S : TRUE
         IN  req[i].in.body.value + SumOfValues(S \ {i})

\* C4: a Create answered 201 has added 1 to transactions_total{completed},
\* its submitted value to transactions_value_sum, nothing to
\* transactions_errors_total, and one row to the table; so in every state
\* transactions_value_sum is the sum of the submitted values of the Creates
\* answered 201, the table holds one row for each Create whose insert
\* returned, and transactions_errors_total counts the Creates answered 400
\* or 500 only.
C4_SuccessfulCreate ==
    LET counted  == Created \cup {i \in Creates : req[i].pc = "summed"}
        inserted == counted \cup {i \in Creates : req[i].pc = "counted"}
    IN  /\ txnValueSum = SumOfValues(Created)
        /\ CopiesIn("completed", txnCounter) = Cardinality(counted)
        /\ Len(db) = Cardinality(inserted)
        /\ \A i \in inserted :
             /\ req[i].txn.id \in 1..Len(db)
             /\ db[req[i].txn.id] = req[i].txn
             /\ \A j \in inserted : j # i => req[j].txn.id # req[i].txn.id
        /\ \A i \in Created :
             /\ req[i].wrapped.statusCode = StatusCreated
             /\ req[i].w.body = <<[data |-> Json("txn", <<req[i].txn>>),
                                   n |-> Bytes(Json("txn", <<req[i].txn>>))]>>
        /\ txnErrorCounter =
             Cardinality({i \in Creates :
                 req[i].w.status \in {StatusBadRequest, StatusInternalServerError}})

C4_Witness ==
    /\ \A i \in ReqIds : req[i].pc = "done"
    /\ Cardinality(Created) = 2
    /\ \E i, j \in Created : req[i].in.body.value = 4 /\ req[j].in.body.value = 1500
    /\ txnValueSum = 1504
    /\ CopiesIn("completed", txnCounter) = 2
    /\ Len(db) = 2
    /\ txnErrorCounter = 0

\* C5: every row of the table has value > 0.
C5_StoredValuePositive == \A k \in 1..Len(db) : db[k].value > 0

Quiescent == \A i \in ReqIds : req[i].pc = "done"

\* C6: once every request has completed, no update is lost:
\* http_requests_total holds, per label tuple, the number of completed
\* requests with that tuple and nothing else, transactions_errors_total the
\* number of failed Creates, transactions_total the number of successful
\* Creates.
C6_NoUpdateLost ==
    Quiescent =>
        /\ \A i \in ReqIds :
             CopiesIn(Tuple(req[i]), httpRequests) =
                Cardinality({j \in ReqIds : Tuple(req[j]) = Tuple(req[i])})
        /\ BagToSet(httpRequests) \subseteq {Tuple(req[i]) : i \in ReqIds}
        /\ txnErrorCounter = Cardinality(Creates \ Created)
        /\ CopiesIn("completed", txnCounter) = Cardinality(Created)

\* The same over the requests that went through the middleware, in every
\* state: each counter is the number of increments issued on it.
NoIssuedUpdateLost ==
    LET mw(pcs) == {i \in ReqIds : req[i].handler \in MiddlewareHandlers
                                   /\ req[i].pc \in pcs}
    IN  /\ BagCardinality(httpRequests) = Cardinality(mw({"size", "done"}))
        /\ BagCardinality(httpDuration) = Cardinality(mw(Recording))
        /\ BagCardinality(httpResponseSize) = Cardinality(mw({"done"}))
        /\ txnErrorCounter =
             Cardinality({i \in Creates :
                 req[i].w.status \in {StatusBadRequest, StatusInternalServerError}})
        /\ CopiesIn("completed", txnCounter) =
             Cardinality(Created \cup {i \in Creates : req[i].pc = "summed"})

\* A write of the sampler changes the four gauges and nothing else.
SamplerLeavesCounters ==
    [][gauges' # gauges =>
         UNCHANGED <<req, db, httpDuration, httpRequests, httpRequestSize,
                     httpResponseSize, txnCounter, txnValueSum,
                     txnErrorCounter>>]_vars

\* C7: whatever calls the handler made, the status_code label of the three
\* response metrics is the status code that was sent to the caller.
C7_RecordsSentStatus ==
    hw.pc = "done" =>
        LET t == <<hw.in.path, hw.in.method, Sent(hw.w)>>
        IN  /\ BagToSet(httpRequests) = {t}
            /\ BagToSet(httpDuration) = {t}
            /\ \A o \in BagToSet(httpResponseSize) : o[1] = t

\* C8: no metric carries the status_code label 0, and a request whose
\* handler returned without a WriteHeader call is recorded under 200.
C8_DefaultStatus ==
    /\ \A t \in BagToSet(httpDuration) \cup BagToSet(httpRequests) : t[3] # 0
    /\ \A o \in BagToSet(httpResponseSize) : o[1][3] # 0
    /\ \A i \in ReqIds :
         /\ req[i].handler \in MiddlewareHandlers
         /\ req[i].pc \in Recording
         /\ req[i].w.headerCalls = <<>>
         => /\ req[i].wrapped.statusCode = StatusOK
            /\ CopiesIn(<<req[i].in.path, req[i].in.method, StatusOK>>,
                        httpDuration) >= 1

C8_Witness ==
    \E i \in ReqIds :
        /\ req[i].handler = "listTransactions"
        /\ req[i].pc = "done"
        /\ req[i].w.headerCalls = <<>>
        /\ req[i].err = "nil"
        /\ CopiesIn(<<req[i].in.path, "GET", StatusOK>>, httpRequests) >= 1
        /\ \E o \in BagToSet(httpResponseSize) :
             o[1] = <<req[i].in.path, "GET", StatusOK>>

RECURSIVE SumTaken(_)
SumTaken(body) ==
    IF body = <<>> THEN 0 ELSE Head(body).n + SumTaken(Tail(body))

\* C9: with the decorating writer in between, the server's writer is in
\* the state the same calls leave it in without it (status, headers sent,
\* pending headers, body writes in order), and the recorded size is the sum
\* of the byte counts the server's writer returned.
C9_Transparent ==
    /\ hw.w = hw.direct
    /\ hw.pc \in {"handler", "after", "done"} => hw.wrapped.size = SumTaken(hw.w.body)
    /\ hw.pc = "done" =>
         \A o \in BagToSet(httpResponseSize) : o[2] = SumTaken(hw.direct.body)

C9_Witness ==
    /\ hw.pc = "done"
    /\ Len(hw.w.headerCalls) = 1
    /\ hw.w.sent["Content-Type"] # ""
    /\ Len(hw.w.body) = 1
    /\ hw.w.body[1].n = 10
    /\ \E o \in BagToSet(httpResponseSize) : o[2] = 10

\* A string spells n >= 0 when it is an optional sign, any number of zeros
\* and the decimal digits of n ("-" only before 0).
DigitChar(d) ==
    CASE d = 0 -> "0" [] d = 1 -> "1" [] d = 2 -> "2" [] d = 3 -> "3"
      [] d = 4 -> "4" [] d = 5 -> "5" [] d = 6 -> "6" [] d = 7 -> "7"
      [] d = 8 -> "8" [] d = 9 -> "9"

RECURSIVE Decimal(_)
Decimal(n) ==
    IF n < 10 THEN <<DigitChar(n)>>
    ELSE Decimal(n \div 10) \o <<DigitChar(n % 10)>>

Zeros(k) == [j \in 1..k |-> "0"]

Spellings(n) ==
    {sign \o Zeros(k) \o Decimal(n) :
        sign \in (IF n = 0 THEN {<<>>, <<"+">>, <<"-">>} ELSE {<<>>, <<"+">>}),
        k \in 0..MaxLen}

Spelled ==
    UNION {{<<s, n>> : s \in {x \in Spellings(n) : Len(x) <= MaxLen}} :
              n \in 0..(10 ^ MaxLen - 1)}

ClaimedLimit(s) ==
    IF \E n \in 1..100 : s \in Spellings(n)
    THEN CHOOSE n \in 1..100 : s \in Spellings(n)
    ELSE 50

ClaimedOffset(s) ==
    LET hits == {p \in Spelled : p[1] = s}
    IN  IF hits = {} THEN 0 ELSE (CHOOSE p \in hits : TRUE)[2]

\* C10: the limit used is the number the parameter spells when that number
\* is in 1..100, else 50; the offset used is the number the parameter spells
\* when that number is >= 0, else 0; and a List is answered 200 unless the
\* store query failed, whatever the parameters.
C10_PaginationFallback ==
    \A i \in ReqIds :
        req[i].handler = "listTransactions" /\ req[i].pc \in Answered =>
            /\ req[i].page.limit = ClaimedLimit(req[i].in.limit)
            /\ req[i].page.offset = ClaimedOffset(req[i].in.offset)
            /\ IF req[i].err = "nil" THEN Sent(req[i].w) = StatusOK
               ELSE Sent(req[i].w) = StatusInternalServerError

C10_Witness ==
    \E i \in ReqIds :
        /\ req[i].pc = "done"
        /\ req[i].in.limit = <<"5", "0", "0">>
        /\ req[i].page.limit = 50
        /\ Sent(req[i].w) = StatusOK

Min(a, b) == IF a < b THEN a ELSE b

\* r is a List without query parameters whose store query succeeded
DefaultList(r) ==
    /\ r.handler = "listTransactions"
    /\ r.in.limit = <<>> /\ r.in.offset = <<>>
    /\ r.pc \in Answered
    /\ r.err = "nil"

\* the rows of the response body
Returned(r) == IF r.w.body = <<>> THEN <<>> ELSE r.w.body[1].data.rows

\* rows from..to of the ordering f that are not in skip, in order
Kept(f, from, to, skip) ==
    LET idx  == [k \in 1..(IF to < from THEN 0 ELSE to - from + 1) |-> f[from + k - 1]]
        kept == SelectSeq(idx, LAMBDA k : k \notin skip)
    IN  [k \in 1..Len(kept) |-> db[kept[k]]]

\* C11 as claimed: a List with no query parameters returns the first
\* min(50, N) rows of the table sorted by created_at descending, whatever
\* the table holds.
C11_DefaultListFirstRows ==
    \A i \in ReqIds :
        DefaultList(req[i]) =>
            \E f \in Orderings :
                Returned(req[i]) = Kept(f, 1, Min(50, Len(db)), {})

\* C11 as amended: a List with no query parameters whose store query
\* succeeded returns at most 50 rows: the first min(50, N) rows of the
\* table sorted by created_at descending, in that order, without those of
\* them that failed to decode.
C11_DefaultListDecodedRows ==
    \A i \in ReqIds :
        DefaultList(req[i]) =>
            /\ Len(Returned(req[i])) <= 50
            /\ \E f \in Orderings :
                 Returned(req[i]) = Kept(f, 1, Min(50, Len(db)), req[i].skipped)
            /\ \A k \in 1..(Len(Returned(req[i])) - 1) :
                 Returned(req[i])[k].created_at >= Returned(req[i])[k + 1].created_at

C11_Witness ==
    \E i \in ReqIds :
        /\ DefaultList(req[i])
        /\ req[i].pc = "done"
        /\ Len(db) > 50
        /\ Cardinality(req[i].skipped) = 1
        /\ Len(Returned(req[i])) = 49

\* C12: a List whose store query succeeded is answered 200 with a JSON
\* array, also when the table is empty or every row of the page fails to
\* decode (then the array is empty, not null); the array holds the rows of
\* the page that decoded, in the order of the page.
C12_ListJsonArray ==
    \A i \in ReqIds :
        /\ req[i].handler = "listTransactions"
        /\ req[i].pc \in Answered
        /\ req[i].err = "nil"
        => /\ Sent(req[i].w) = StatusOK
           /\ Len(req[i].w.body) = 1
           /\ req[i].w.body[1].data.kind = "list"
           /\ \E f \in Orderings :
                Returned(req[i]) =
                   Kept(f, req[i].page.offset + 1,
                        Min(req[i].page.offset + req[i].page.limit, Len(db)),
                        req[i].skipped)

\* The same but for the encoding of the empty result.
ListDecodedRowsInOrder ==
    \A i \in ReqIds :
        /\ req[i].handler = "listTransactions"
        /\ req[i].pc \in Answered
        /\ req[i].err = "nil"
        => /\ Sent(req[i].w) = StatusOK
           /\ Len(req[i].w.body) = 1
           /\ req[i].w.body[1].data.kind = "list" <=> Returned(req[i]) # <<>>
           /\ \E f \in Orderings :
                Returned(req[i]) =
                   Kept(f, req[i].page.offset + 1,
                        Min(req[i].page.offset + req[i].page.limit, Len(db)),
                        req[i].skipped)

\* C13: a Create that passed validation and whose store call failed is
\* answered 500, adds exactly 1 to transactions_errors_total and leaves
\* transactions_total{completed}, transactions_value_sum and the table as
\* they were; and a Create ends in exactly one of two ways: answered 201
\* with its value added and its row counted and no error counted, or
\* answered 400 or 500 with exactly one error counted (at the step that
\* answers) and nothing counted or added.
C13_CreateEndsOneWay ==
    [][\A i \in ReqIds :
         Acts(i) /\ req'[i].handler = "createTransaction" =>
            LET a == req[i]
                b == req'[i]
                dErr == txnErrorCounter' - txnErrorCounter
                dOk  == CopiesIn("completed", txnCounter')
                          - CopiesIn("completed", txnCounter)
                dSum == txnValueSum' - txnValueSum
                answers == a.pc \notin Answered /\ b.pc \in Answered
            IN  /\ b.err = "error" =>
                      /\ db' = db /\ dOk = 0 /\ dSum = 0
                      /\ dErr = (IF answers THEN 1 ELSE 0)
                      /\ b.pc \in Answered =>
                            /\ Sent(b.w) = StatusInternalServerError
                            /\ b.wrapped.statusCode = StatusInternalServerError
                /\ answers =>
                      \/ /\ Sent(b.w) = StatusCreated
                         /\ dErr = 0
                         /\ dSum = b.in.body.value
                         /\ b.err = "nil" /\ b.txn # NoTxn
                         /\ CopiesIn("completed", txnCounter') >=
                               Cardinality({j \in ReqIds :
                                   /\ req'[j].handler = "createTransaction"
                                   /\ req'[j].w.status = StatusCreated})
                      \/ /\ Sent(b.w) \in {StatusBadRequest, StatusInternalServerError}
                         /\ dErr = 1 /\ dOk = 0 /\ dSum = 0
                         /\ b.txn = NoTxn
                /\ ~answers => dErr = 0 /\ dSum = 0
                /\ dOk \in {0, 1}
                /\ dOk = 1 => b.err = "nil" /\ b.txn # NoTxn /\ b.pc \notin Answered
                /\ a.pc \in Answered => dOk = 0]_vars

C13_Witness ==
    \E i \in ReqIds :
        /\ req[i].handler = "createTransaction"
        /\ req[i].pc = "done"
        /\ req[i].in.body.valid /\ req[i].in.body.value = 1500
        /\ req[i].err = "error"
        /\ Sent(req[i].w) = StatusInternalServerError
        /\ txnErrorCounter = 1
        /\ txnCounter = EmptyBag /\ txnValueSum = 0 /\ db = <<>>

\* C14: transactions_errors_total changes only in a step of a Create; no
\* step of a List or a Get, a failed store call included, changes
\* transactions_errors_total, transactions_total, transactions_value_sum or
\* the table; a List or Get whose store call failed is answered 500; a Get
\* is answered 404 when the store reported no row for the identifier (and
\* then no row has it), 500 on any other store failure, 200 with the row
\* otherwise.
C14_ErrorsCountedOnCreateOnly ==
    [][/\ txnErrorCounter' # txnErrorCounter =>
             \E i \in ReqIds : Acts(i) /\ req'[i].handler = "createTransaction"
       /\ \A i \in ReqIds :
             Acts(i) /\ req'[i].handler \in {"listTransactions", "getTransaction"} =>
                LET b == req'[i] IN
                /\ txnErrorCounter' = txnErrorCounter
                /\ txnCounter' = txnCounter
                /\ txnValueSum' = txnValueSum
                /\ db' = db
                /\ b.pc \in Answered /\ b.err = "error" =>
                      /\ Sent(b.w) = StatusInternalServerError
                      /\ b.wrapped.statusCode = StatusInternalServerError
                /\ b.pc \in Answered /\ b.handler = "getTransaction" =>
                      /\ Sent(b.w) \in {StatusOK, StatusNotFound,
                                        StatusInternalServerError}
                      /\ Sent(b.w) = StatusNotFound <=> b.err = "ErrNoRows"
                      /\ Sent(b.w) = StatusInternalServerError <=> b.err = "error"
                      /\ req[i].pc = "handler" /\ b.err = "ErrNoRows" =>
                            \A k \in 1..Len(db) :
                                <<DigitChar(db[k].id)>> # <<b.in.path[2]>>
                      /\ req[i].pc = "handler" /\ b.err = "nil" =>
                            \E k \in 1..Len(db) :
                                /\ <<DigitChar(db[k].id)>> = <<b.in.path[2]>>
                                /\ b.w.body[1].data = Json("txn", <<db[k]>>)]_vars

C14_Witness ==
    \E i, j \in ReqIds :
        /\ req[i].handler = "listTransactions" /\ req[j].handler = "getTransaction"
        /\ req[i].pc = "done" /\ req[j].pc = "done"
        /\ req[i].err = "error" /\ req[j].err = "error"
        /\ req[j].in.path = <<"transactions", "9">>
        /\ Sent(req[i].w) = StatusInternalServerError
        /\ Sent(req[j].w) = StatusInternalServerError
        /\ txnErrorCounter = 0

\* the response of a Health: 503 and "unhealthy" exactly when the ping
\* failed, 200 and "healthy" otherwise
HealthAnswer(r) ==
    /\ Len(r.w.body) = 1
    /\ IF r.err = "error"
       THEN /\ Sent(r.w) = StatusServiceUnavailable
            /\ r.w.body[1].data.kind = "unhealthy"
       ELSE /\ Sent(r.w) = StatusOK
            /\ r.w.body[1].data.kind = "healthy"

Holds(reg, name) == Cardinality({k \in 1..Len(reg) : reg[k].name = name})

Instruments ==
    {AppCollectors[k] : k \in 1..Len(AppCollectors)}
    \cup {DBCollectors[k] : k \in 1..Len(DBCollectors)}

\* C16: no registerMetric call ends the process; a call for an identity
\* the registry already holds leaves the registry as it was (the instance
\* registered first stays) and changes no instrument's value, any other call
\* adds the collector; either way main goes on to its next statement; no
\* identity is ever registered twice, and once main has reached the server
\* every instrument is in the registry exactly once.
C16_RegisterNeverAborts ==
    [][/\ proc.pc \in {"initMetrics", "collectDBStats"}
          /\ <<proc'.pc, proc'.next, proc'.registered, proc'.log>>
               # <<proc.pc, proc.next, proc.registered, proc.log>> =>
             LET names == IF proc.pc = "initMetrics" THEN AppCollectors
                          ELSE DBCollectors
                 name  == names[proc.next]
             IN  /\ proc'.pc # "exited"
                 /\ UNCHANGED registry
                 /\ IF Holds(proc.registered, name) > 0
                    THEN /\ proc'.registered = proc.registered
                         /\ proc'.log = Append(proc.log, name)
                    ELSE /\ Len(proc'.registered) = Len(proc.registered) + 1
                         /\ SubSeq(proc'.registered, 1, Len(proc.registered))
                              = proc.registered
                         /\ proc'.registered[Len(proc'.registered)].name = name
                         /\ proc'.log = proc.log
                 /\ IF proc.next < Len(names)
                    THEN proc'.pc = proc.pc /\ proc'.next = proc.next + 1
                    ELSE proc'.pc = (IF proc.pc = "initMetrics" THEN "open"
                                     ELSE "spawn")
       /\ \A name \in Instruments : Holds(proc'.registered, name) <= 1
       /\ proc'.pc \in {"spawn", "listen", "serving"} =>
             \A name \in Instruments : Holds(proc'.registered, name) = 1]_vars

C16_Witness ==
    /\ proc.pc = "serving"
    /\ proc.log = <<"go_collector", "process_collector">>
    /\ Len(proc.registered) = 13
    /\ proc.registered[2] = [name |-> "go_collector", by |-> "prometheus"]

\* the instruments of initMetrics are registered
MetricsRegistered ==
    \A k \in 1..Len(AppCollectors) : Holds(proc.registered, AppCollectors[k]) = 1

\* the order of the start in one state
StartOrder ==
    /\ proc.opened => MetricsRegistered
    /\ proc.schema => proc.opened
    /\ proc.tasks > 0 \/ proc.sampler.pc # "none" => proc.schema
    /\ proc.listening => proc.schema /\ proc.tasks = 1 /\ MetricsRegistered
    /\ \A i \in ReqIds : req[i].pc # "new" => proc.schema /\ proc.listening
    /\ gauges # NoStats => proc.schema

\* C20: the instruments are registered before the store is opened, the
\* schema is created before the sampler is spawned, the server listens only
\* after all of that; when opening the store or creating the schema fails
\* the process ends at that statement and does nothing after; so no request
\* is served and no sampler runs without a created schema.
C20_StartOrderedFailFast ==
    [][/\ StartOrder /\ StartOrder'
       /\ proc.pc = "exited" => FALSE
       /\ proc.pc = "open" /\ proc'.pc # "open" =>
             \/ proc'.pc = "schema" /\ proc'.opened
             \/ proc'.pc = "exited" /\ ~proc'.opened /\ proc'.tasks = 0
       /\ proc.pc = "schema" /\ proc'.pc # "schema" =>
             \/ proc'.pc = "collectDBStats" /\ proc'.schema /\ proc.store = "up"
             \/ proc'.pc = "exited" /\ ~proc'.schema /\ proc'.tasks = 0
       /\ proc'.tasks # proc.tasks /\ proc'.pc # "exited" =>
             proc.pc = "spawn" /\ proc.schema /\ proc'.tasks = 1
       /\ proc'.listening /\ ~proc.listening => proc.pc = "listen"]_vars

C20_Witness ==
    /\ proc.pc = "exited"
    /\ proc.opened /\ ~proc.schema
    /\ proc.store = "down"
    /\ proc.tasks = 0
    /\ MetricsRegistered
    /\ \A i \in ReqIds : req[i].pc = "new"

\* One sampler at most, none before the schema is there; between its
\* snapshot and its sleep it has written, gauge by gauge, the values of that
\* one snapshot.
SamplerWritesItsSnapshot ==
    /\ proc.tasks \in {0, 1}
    /\ proc.tasks = 1 <=> proc.sampler.pc # "none"
    /\ proc.tasks = 1 => proc.schema
    /\ \A k \in 1..5 :
         proc.sampler.pc = GaugeOrder[k] =>
            \A j \in 1..(k - 1) : gauges[GaugeOrder[j]] = proc.sampler.stats[GaugeOrder[j]]

\* The sampler ends only with the process, and takes each of its steps
\* whether or not the store can be reached.
SamplerNeverEnds ==
    /\ proc.tasks = 1 /\ proc'.tasks # 1 => proc'.pc = "exited"
    /\ proc.tasks = 1 /\ proc'.tasks = 1 /\ proc'.sampler # proc.sampler =>
          /\ proc'.store = proc.store
          /\ proc.sampler.pc = "stats" =>
                proc'.sampler = [pc |-> "max", stats |-> pool]
          /\ proc.sampler.pc # "stats" => proc'.sampler.stats = proc.sampler.stats

\* C17 as claimed: there is one sampler, it never ends and writes the four
\* gauges of each iteration from one snapshot, and every value the pool
\* statistics take is eventually the value of the gauges.
C17_EveryChangeReflected ==
    /\ []SamplerWritesItsSnapshot
    /\ [][SamplerNeverEnds]_vars
    /\ \A p \in PoolStats :
          (proc.tasks = 1 /\ pool = p) ~> (gauges = p \/ proc.pc = "exited")

\* C17 as amended: there is one sampler from the moment collectDBStats
\* spawns it, it ends only with the process, never waits for the store, and
\* writes the four gauges of each iteration from one snapshot; under
\* fairness, pool statistics that stop changing are eventually, and from
\* then on, the values of the gauges, also while the store is unreachable.
C17_LastingChangeReflected ==
    /\ []SamplerWritesItsSnapshot
    /\ [][SamplerNeverEnds]_vars
    /\ \A p \in PoolStats :
          <>[](proc.tasks = 1 /\ pool = p) => <>[](gauges = p)

C17_Witness ==
    /\ proc.tasks = 1
    /\ proc.store = "down"
    /\ proc.sampler.pc = "sleep"
    /\ pool.inUse = 1
    /\ proc.sampler.stats = pool
    /\ gauges = pool

\* the requests that have passed the middleware's entry
Entered == {i \in ReqIds : /\ req[i].handler \in MiddlewareHandlers
                           /\ req[i].pc \notin {"new", "middleware"}}

\* C18: http_request_size_bytes holds, under (path, method), exactly one
\* observation of the declared length for every request that has entered
\* the middleware with a known content length, a length of 0 included, and
\* none for a request of unknown length (-1), whatever the handler did.
C18_RequestSizeRecorded ==
    /\ \A i \in Entered :
          CopiesIn(<<Labels2(req[i]), req[i].in.cl>>, httpRequestSize) =
             IF req[i].in.cl >= 0
             THEN Cardinality({j \in Entered :
                     /\ Labels2(req[j]) = Labels2(req[i])
                     /\ req[j].in.cl = req[i].in.cl})
             ELSE 0
    /\ BagToSet(httpRequestSize) \subseteq
          {<<Labels2(req[i]), req[i].in.cl>> : i \in Entered}

\* The same for the lengths the code records: those greater than 0.
PositiveRequestSizeRecorded ==
    /\ \A i \in Entered :
          CopiesIn(<<Labels2(req[i]), req[i].in.cl>>, httpRequestSize) =
             IF req[i].in.cl > 0
             THEN Cardinality({j \in Entered :
                     /\ Labels2(req[j]) = Labels2(req[i])
                     /\ req[j].in.cl = req[i].in.cl})
             ELSE 0
    /\ BagToSet(httpRequestSize) \subseteq
          {<<Labels2(req[i]), req[i].in.cl>> : i \in Entered}

\* C19: no step removes or changes a row of the table, ids stay unique, and
\* the table changes only by the insert of a Create that the store
\* answered with the new row; a List, a Get, a Health, a scrape, a rejected
\* Create and a Create whose store call failed leave the table as it was.
C19_AppendOnly ==
    [][/\ Len(db') >= Len(db)
       /\ SubSeq(db', 1, Len(db)) = db
       /\ \A a, b \in 1..Len(db') : a # b => db'[a].id # db'[b].id
       /\ db' # db =>
             /\ Len(db') = Len(db) + 1
             /\ \E i \in ReqIds :
                   /\ Acts(i)
                   /\ req[i].handler = "createTransaction"
                   /\ req[i].in.body.valid /\ req[i].in.body.value > 0
                   /\ req'[i].err = "nil"
                   /\ req'[i].txn = db'[Len(db')]
                   /\ \A j \in ReqIds \ {i} : req'[j] = req[j]
       /\ \A i \in ReqIds :
             /\ Acts(i)
             /\ \/ req'[i].handler # "createTransaction"
                \/ req'[i].err = "error"
                \/ RejectedCreate(req'[i])
             => db' = db]_vars

C19_Witness ==
    \E i, j \in ReqIds :
        /\ req[i].handler = "createTransaction" /\ req[i].pc = "done"
        /\ req[j].handler = "getTransaction" /\ req[j].pc = "done"
        /\ Sent(req[i].w) = StatusCreated
        /\ Sent(req[j].w) = StatusOK
        /\ db = <<req[i].txn>>
        /\ req[j].w.body[1].data = Json("txn", db)

\* C21: in every state transactions_total{completed} is at most the number
\* of rows the process has inserted and at least the number of Creates
\* answered 201; the three are equal when no Create is between its insert
\* and its response; and the counter grows only in a step of a Create whose
\* insert has returned its row.
C21_CounterBetweenRowsAndAnswers ==
    LET total    == CopiesIn("completed", txnCounter)
        inFlight == {i \in Creates : req[i].pc \in {"handler", "insert", "failed",
                                                     "counted", "summed"}}
    IN  /\ total <= Len(db)
        /\ Cardinality(Created) <= total
        /\ inFlight = {} => total = Len(db) /\ total = Cardinality(Created)
        /\ Len(db) - total = Cardinality({i \in Creates : req[i].pc = "counted"})
        /\ total - Cardinality(Created) =
              Cardinality({i \in Creates : req[i].pc = "summed"})
        /\ \A i \in Creates :
              req[i].err = "error" \/ RejectedCreate(req[i]) =>
                 /\ req[i].txn = NoTxn
                 /\ req[i].pc \notin {"counted", "summed"}
        /\ BagToSet(txnCounter) \subseteq {"completed"}

C21_Witness ==
    \E i, j \in Creates :
        /\ req[i].pc = "done" /\ Sent(req[i].w) = StatusCreated
        /\ req[j].pc = "counted"
        /\ Len(db) = 2
        /\ CopiesIn("completed", txnCounter) = 1

\* the observations of http_response_size_bytes under the tuple t
SizeCount(t) ==
    LET obs == {o \in BagToSet(httpResponseSize) : o[1] = t}
        RECURSIVE Sum(_)
        Sum(S) == IF S = {} THEN 0
                  ELSE LET o == CHOOSE x \in S : TRUE
                       IN  CopiesIn(o, httpResponseSize) + Sum(S \ {o})
    IN  Sum(obs)

====
